---- MODULE Spec2Model ----
(***************************************************************************)
(* EdgeGit: Git Smart HTTP on a namespaced blob store (Cloudflare R2).     *)
(* Model of src/src/index.ts: the pkt-line codec, the ref and pack         *)
(* operations on the bucket, and the three request handlers                *)
(* (handleInfoRefs, handleUploadPack, handleReceivePack); and the          *)
(* incremental pkt-line reader of the second worker (parsePktLine).        *)
(*                                                                         *)
(* A byte string is a sequence of one-byte elements.  A printable byte is  *)
(* the one-character string of that byte; the bytes 0x00, 0x01 and 0x0a    *)
(* are written NUL, SOH and LF.  A JavaScript string of ASCII characters   *)
(* and its TextEncoder encoding are the same sequence.  XFF is the byte    *)
(* 0xff, which no UTF-8 text holds; REPL is the character U+FFFD that      *)
(* TextDecoder puts in its place.                                          *)
(***************************************************************************)
EXTENDS Integers, Sequences, FiniteSets, TLC

NUL == "NUL"
SOH == "SOH"
LF == "\n"
XFF == "xFF"
REPL == "uFFFD"

----------------------------------------------------------------------------
(* String literals of the source. *)

S_repos ==
    <<"r", "e", "p", "o", "s">>

S_HEAD ==
    <<"H", "E", "A", "D">>

S_refs_heads ==
    <<"r", "e", "f", "s", "/", "h", "e", "a", "d", "s", "/">>

S_objects_pack ==
    <<"o", "b", "j", "e", "c", "t", "s", "/", "p", "a", "c", "k", "/">>

S_pack_dash ==
    <<"p", "a", "c", "k", "-">>

S_dot_pack ==
    <<".", "p", "a", "c", "k">>

S_main ==
    <<"m", "a", "i", "n">>

S_dev ==
    <<"d", "e", "v">>

S_head_target ==
    <<"r", "e", "f", ":", " ", "r", "e", "f", "s", "/", "h", "e", "a", "d",
      "s", "/", "m", "a", "i", "n", LF>>

S_service_hdr ==
    <<"#", " ", "s", "e", "r", "v", "i", "c", "e", "=">>

S_receive_pack ==
    <<"g", "i", "t", "-", "r", "e", "c", "e", "i", "v", "e", "-", "p", "a",
      "c", "k">>

S_upload_pack ==
    <<"g", "i", "t", "-", "u", "p", "l", "o", "a", "d", "-", "p", "a", "c",
      "k">>

S_receive_caps ==
    <<"r", "e", "p", "o", "r", "t", "-", "s", "t", "a", "t", "u", "s", " ",
      "d", "e", "l", "e", "t", "e", "-", "r", "e", "f", "s", " ", "s", "i",
      "d", "e", "-", "b", "a", "n", "d", "-", "6", "4", "k", " ", "q", "u",
      "i", "e", "t", " ", "a", "t", "o", "m", "i", "c", " ", "o", "f", "s",
      "-", "d", "e", "l", "t", "a">>

S_upload_caps ==
    <<"m", "u", "l", "t", "i", "_", "a", "c", "k", "_", "d", "e", "t", "a",
      "i", "l", "e", "d", " ", "m", "u", "l", "t", "i", "_", "a", "c", "k",
      " ", "t", "h", "i", "n", "-", "p", "a", "c", "k", " ", "s", "i", "d",
      "e", "-", "b", "a", "n", "d", " ", "s", "i", "d", "e", "-", "b", "a",
      "n", "d", "-", "6", "4", "k", " ", "o", "f", "s", "-", "d", "e", "l",
      "t", "a", " ", "s", "h", "a", "l", "l", "o", "w", " ", "n", "o", "-",
      "p", "r", "o", "g", "r", "e", "s", "s", " ", "i", "n", "c", "l", "u",
      "d", "e", "-", "t", "a", "g">>

S_unpack_ok ==
    <<"u", "n", "p", "a", "c", "k", " ", "o", "k", LF>>

S_ng ==
    <<"n", "g", " ">>

S_nff ==
    <<" ", "n", "o", "n", "-", "f", "a", "s", "t", "-", "f", "o", "r", "w",
      "a", "r", "d", LF>>

S_ok ==
    <<"o", "k", " ">>

S_ref_colon ==
    <<"r", "e", "f", ":", " ">>

S_flush ==
    <<"0", "0", "0", "0">>

S_PACK ==
    <<"P", "A", "C", "K">>

S_client_caps ==
    <<"r", "e", "p", "o", "r", "t", "-", "s", "t", "a", "t", "u", "s">>

----------------------------------------------------------------------------
(* Basic tools: byte strings, pkt-line framing. *)

Rep(c, n) == [i \in 1..n |-> c]

\* Uint8Array.prototype.slice / String.prototype.slice, 0-based, end exclusive
slice(buf, start, end) ==
    LET n == Len(buf)
        rel(x) == IF x < 0 THEN (IF n + x < 0 THEN 0 ELSE n + x)
                  ELSE (IF x > n THEN n ELSE x)
        from == rel(start)
        to == rel(end)
    IN  IF from >= to THEN << >> ELSE SubSeq(buf, from + 1, to)

sliceFrom(buf, start) == slice(buf, start, Len(buf))

HexDigits ==
    <<"0", "1", "2", "3", "4", "5", "6", "7", "8", "9",
      "a", "b", "c", "d", "e", "f">>

UpperHexDigits == <<"A", "B", "C", "D", "E", "F">>

RECURSIVE toString16(_)
\* Number.prototype.toString(16) of a non-negative integer
toString16(n) ==
    IF n < 16 THEN <<HexDigits[n + 1]>>
    ELSE toString16(n \div 16) \o <<HexDigits[(n % 16) + 1]>>

\* String.prototype.padStart(4, "0")
padStart4(s) == IF Len(s) >= 4 THEN s ELSE Rep("0", 4 - Len(s)) \o s

\* pktLine: a buffer of payload.length + 4 bytes, the header written at 0
\* and the payload written at 4
pktLine(data) ==
    LET len == Len(data) + 4
        header == padStart4(toString16(len))
    IN  SubSeq(header, 1, 4) \o data

\* an empty data packet in place of the flush
pktFlushLine == pktLine(<< >>)

pktFlush == S_flush

RECURSIVE concat(_)
concat(chunks) ==
    IF chunks = << >> THEN << >> ELSE Head(chunks) \o concat(Tail(chunks))

sidebandPacket(data) == pktLine(<<SOH>> \o data)

zeroOid == Rep("0", 40)

RECURSIVE join(_)
\* Array.prototype.join("/")
join(p) ==
    IF Len(p) = 0 THEN << >>
    ELSE IF Len(p) = 1 THEN p[1]
    ELSE p[1] \o <<"/">> \o join(Tail(p))

WhiteSpace == {" ", LF, "\t", "\r"}

RECURSIVE trimStart(_)
trimStart(s) ==
    IF s # << >> /\ Head(s) \in WhiteSpace THEN trimStart(Tail(s)) ELSE s

RECURSIVE trimEnd(_)
trimEnd(s) ==
    IF s # << >> /\ s[Len(s)] \in WhiteSpace
    THEN trimEnd(SubSeq(s, 1, Len(s) - 1)) ELSE s

\* String.prototype.trim
trim(s) == trimEnd(trimStart(s))

RECURSIVE split(_, _)
\* String.prototype.split(sep) for a one-character separator
split(s, sep) ==
    IF \E i \in 1..Len(s) : s[i] = sep
    THEN LET i == CHOOSE j \in 1..Len(s) :
                     s[j] = sep /\ \A k \in 1..(j - 1) : s[k] # sep
         IN  <<SubSeq(s, 1, i - 1)>> \o split(SubSeq(s, i + 1, Len(s)), sep)
    ELSE <<s>>

isHexDigit(c) ==
    \/ \E i \in 1..16 : HexDigits[i] = c
    \/ \E i \in 1..6 : UpperHexDigits[i] = c

hexValue(c) ==
    IF \E i \in 1..16 : HexDigits[i] = c
    THEN (CHOOSE i \in 1..16 : HexDigits[i] = c) - 1
    ELSE (CHOOSE i \in 1..6 : UpperHexDigits[i] = c) + 9

RECURSIVE hexPrefixLen(_)
hexPrefixLen(s) ==
    IF s # << >> /\ isHexDigit(Head(s)) THEN 1 + hexPrefixLen(Tail(s)) ELSE 0

RECURSIVE hexNumber(_)
hexNumber(s) ==
    IF s = << >> THEN 0
    ELSE 16 * hexNumber(SubSeq(s, 1, Len(s) - 1)) + hexValue(s[Len(s)])

\* parseInt(s, 16): leading white space, a sign, an optional 0x, then the
\* longest run of hex digits; NaN when that run is empty
parseInt16(s) ==
    LET t == trimStart(s)
        neg == t # << >> /\ Head(t) = "-"
        u == IF t # << >> /\ Head(t) \in {"-", "+"} THEN Tail(t) ELSE t
        v == IF Len(u) >= 2 /\ u[1] = "0" /\ u[2] \in {"x", "X"}
             THEN Tail(Tail(u)) ELSE u
        k == hexPrefixLen(v)
    IN  IF k = 0 THEN [nan |-> TRUE, val |-> 0]
        ELSE [nan |-> FALSE,
              val |-> IF neg THEN 0 - hexNumber(SubSeq(v, 1, k))
                      ELSE hexNumber(SubSeq(v, 1, k))]

\* decoder.decode(bytes): the text of the bytes, U+FFFD for a byte that
\* is no UTF-8
decode(bytes) ==
    [i \in 1..Len(bytes) |-> IF bytes[i] = XFF THEN REPL ELSE bytes[i]]

----------------------------------------------------------------------------
(* The command section of a push body. *)

\* findPackStart: the first offset i < buf.length - 4 holding "PACK", else 0
findPackStart(buf) ==
    LET hits == {i \in 0..(Len(buf) - 5) : SubSeq(buf, i + 1, i + 4) = S_PACK}
    IN  IF hits = {} THEN 0
        ELSE CHOOSE i \in hits : \A j \in hits : i <= j

RECURSIVE parseLoop(_, _, _)
\* the while (true) loop of parseReceiveCommands; threw: a TypeError left
\* the function (refPart undefined)
parseLoop(buf, i, commands) ==
    LET len == parseInt16(decode(slice(buf, i, i + 4)))
    IN  IF ~len.nan /\ len.val = 0
        THEN [threw |-> FALSE, commands |-> commands]
        ELSE LET line == IF len.nan THEN decode(slice(buf, i + 4, 0))
                         ELSE decode(slice(buf, i + 4, i + len.val))
                 parts == split(trim(line), " ")
             IN  IF Len(parts) < 3 \/ len.nan
                 THEN [threw |-> TRUE, commands |-> commands]
                 ELSE parseLoop(buf, i + len.val,
                          Append(commands,
                              [old |-> parts[1], new |-> parts[2],
                               ref |-> split(parts[3], NUL)[1]]))

parseReceiveCommands(buf) ==
    LET r == parseLoop(buf, 0, << >>)
    IN  [threw |-> r.threw, commands |-> r.commands,
         packStart |-> findPackStart(buf)]

----------------------------------------------------------------------------
(* The incremental reader of the second worker: parsePktLine. *)

NoLine == [null |-> TRUE, text |-> << >>]

RECURSIVE read(_, _, _, _)
\* read(bytes) of parsePktLine: reader.read() until the buffer holds bytes
\* bytes, null when the stream ends first; chunks is what the reader has
\* still to deliver; nan: bytes is NaN, the loop test is false and both
\* slices take NaN as 0
read(buffer, chunks, bytes, nan) ==
    IF ~nan /\ Len(buffer) < bytes
    THEN IF chunks = << >>
         THEN [null |-> TRUE, result |-> << >>, buffer |-> buffer,
               chunks |-> chunks]
         ELSE read(buffer \o Head(chunks), Tail(chunks), bytes, nan)
    ELSE [null |-> FALSE,
          result |-> slice(buffer, 0, IF nan THEN 0 ELSE bytes),
          buffer |-> sliceFrom(buffer, IF nan THEN 0 ELSE bytes),
          chunks |-> chunks]

\* one call of parsePktLine on a reader: the line it returns (or null) and
\* what the reader has left; the buffer is a local of the call, so the
\* bytes it still holds at the return are dropped
parsePktLine(chunks) ==
    LET lengthHex == read(<< >>, chunks, 4, FALSE)
    IN  IF lengthHex.null THEN [line |-> NoLine, chunks |-> lengthHex.chunks]
        ELSE LET length == parseInt16(decode(lengthHex.result))
             IN  IF ~length.nan /\ length.val = 0
                 THEN [line |-> NoLine, chunks |-> lengthHex.chunks]
                 ELSE LET data == read(lengthHex.buffer, lengthHex.chunks,
                                       length.val - 4, length.nan)
                      IN  IF data.null
                          THEN [line |-> NoLine, chunks |-> data.chunks]
                          ELSE [line |-> [null |-> FALSE,
                                          text |-> decode(data.result)],
                                chunks |-> data.chunks]

----------------------------------------------------------------------------
(* The bucket: a map from keys to objects.  R2 lists keys in              *)
(* lexicographic order of their bytes.                                     *)

ByteOrder ==
    <<NUL, SOH, LF, " ", "#", "-", ".", "/",
      "0", "1", "2", "3", "4", "5", "6", "7", "8", "9", ":", "=",
      "A", "B", "C", "D", "E", "F", "G", "H", "I", "J", "K", "L", "M",
      "N", "O", "P", "Q", "R", "S", "T", "U", "V", "W", "X", "Y", "Z", "_",
      "a", "b", "c", "d", "e", "f", "g", "h", "i", "j", "k", "l", "m",
      "n", "o", "p", "q", "r", "s", "t", "u", "v", "w", "x", "y", "z">>

byteCode(c) == CHOOSE i \in 1..Len(ByteOrder) : ByteOrder[i] = c

RECURSIVE keyLess(_, _)
keyLess(a, b) ==
    IF b = << >> THEN FALSE
    ELSE IF a = << >> THEN TRUE
    ELSE IF Head(a) = Head(b) THEN keyLess(Tail(a), Tail(b))
    ELSE byteCode(Head(a)) < byteCode(Head(b))

startsWith(s, prefix) ==
    Len(prefix) <= Len(s) /\ SubSeq(s, 1, Len(prefix)) = prefix

RECURSIVE sortedKeys(_)
sortedKeys(S) ==
    IF S = {} THEN << >>
    ELSE LET m == CHOOSE k \in S : \A o \in S : o = k \/ keyLess(k, o)
         IN  <<m>> \o sortedKeys(S \ {m})

\* GIT_R2.list({ prefix }): the objects whose key starts with prefix, in
\* key order
R2list(bucket, prefix) ==
    LET keys == sortedKeys({k \in DOMAIN bucket : startsWith(k, prefix)})
    IN  [i \in 1..Len(keys) |->
            [key |-> keys[i], uploaded |-> bucket[keys[i]].uploaded]]

\* GIT_R2.put(key, value) at time t
R2put(bucket, key, value, t) ==
    [k \in (DOMAIN bucket) \cup {key} |->
        IF k = key THEN [data |-> value, uploaded |-> t] ELSE bucket[k]]

repoBase(org, repo) == join(<<S_repos, org, repo>>)

\* repoExists: list({ prefix: join("repos", org, repo), limit: 1 })
repoExists(bucket, org, repo) ==
    Len(R2list(bucket, repoBase(org, repo))) > 0

\* readRef: the zero id for a missing or blank record, else the trimmed text
readRef(bucket, base, ref) ==
    LET key == join(<<base, ref>>)
    IN  IF key \notin DOMAIN bucket THEN zeroOid
        ELSE IF trim(bucket[key].data) = << >> THEN zeroOid
        ELSE trim(bucket[key].data)

----------------------------------------------------------------------------
(* Response bodies of the three handlers. *)

capabilities(service) ==
    IF service = S_receive_pack THEN S_receive_caps ELSE S_upload_caps

\* refs[name] = sha on a Record<string, string>: Object.entries keeps the
\* insertion order of the names
refsSet(refs, name, sha) ==
    IF \E i \in 1..Len(refs) : refs[i].ref = name
    THEN [i \in 1..Len(refs) |->
             IF refs[i].ref = name THEN [ref |-> name, sha |-> sha]
             ELSE refs[i]]
    ELSE Append(refs, [ref |-> name, sha |-> sha])

\* first is never cleared: every line carries the capabilities
refLinesAllFirst(service, refs) ==
    [i \in 1..Len(refs) |->
        pktLine((IF refs[i].sha = << >> THEN zeroOid ELSE refs[i].sha)
                \o <<" ">> \o refs[i].ref \o <<NUL>>
                \o capabilities(service) \o <<LF>>)]

\* the frames pushed by handleInfoRefs for the listed refs
refLines(service, refs) ==
    [i \in 1..Len(refs) |->
        IF i = 1
        THEN pktLine((IF refs[i].sha = << >> THEN zeroOid ELSE refs[i].sha)
                     \o <<" ">> \o refs[i].ref \o <<NUL>>
                     \o capabilities(service) \o <<LF>>)
        ELSE pktLine(refs[i].sha \o <<" ">> \o refs[i].ref \o <<LF>>)]

advertisement(service, refs) ==
    concat(<<pktLine(S_service_hdr \o service \o <<LF>>), pktFlush>>
           \o refLines(service, refs) \o <<pktFlush>>)

\* const MAX = 65500
\* the greatest number of four hex digits as the chunk size: the frame
\* length no longer fits the header
MAXWide == 16 * 16 * 16 * 16 - 1

MAX == 65500

RECURSIVE packChunks(_, _)
\* the for loop of handleUploadPack from offset i
packChunks(packData, i) ==
    IF i < Len(packData)
    THEN <<pktLine(<<SOH>> \o slice(packData, i, i + MAX))>>
         \o packChunks(packData, i + MAX)
    ELSE << >>

uploadResult(packData) == concat(packChunks(packData, 0) \o <<pktFlush>>)

\* the sort the other way round: the oldest object
oldestKey(objects) ==
    LET oldest == {i \in 1..Len(objects) :
                      \A j \in 1..Len(objects) :
                          objects[i].uploaded <= objects[j].uploaded}
    IN  objects[CHOOSE i \in oldest : \A j \in oldest : i <= j].key

\* list.objects.sort((a, b) => b.uploaded - a.uploaded)[0]: the sort is
\* stable, so among the newest objects the first listed one
latestKey(objects) ==
    LET newest == {i \in 1..Len(objects) :
                      \A j \in 1..Len(objects) :
                          objects[j].uploaded <= objects[i].uploaded}
    IN  objects[CHOOSE i \in newest : \A j \in newest : i <= j].key

ngLine(ref) == pktLine(S_ng \o ref \o S_nff)

okLine(ref) == pktLine(S_ok \o ref \o <<LF>>)

\* a comparison with the wrong end of the command: the new id
rejectsNewId(cur, cmd) ==
    cur # cmd.new /\ cmd.old # zeroOid

\* the command is refused: the stored id differs from a non-zero old id
rejects(cur, cmd) ==
    LET oldSha == IF cmd.old = zeroOid THEN zeroOid ELSE cmd.old
    IN  cur # oldSha /\ oldSha # zeroOid

\* every update lands on the default branch
refKeyMain(base, ref) == join(<<base, S_refs_heads \o S_main>>)

\* the key of the put of an accepted command
refKey(base, ref) == join(<<base, ref>>)

\* the old id is written back
refRecordOld(cmd) == cmd.old \o <<LF>>

\* the record of the put of an accepted command
refRecord(cmd) == cmd.new \o <<LF>>

\* the status lines are sent as they are, without the side-band frame
receiveResultPlain(res) == concat(res \o <<pktFlush>>)

receiveResult(res) ==
    concat(<<concat([i \in 1..Len(res) |-> sidebandPacket(res[i])]),
             pktFlush>>)

packKey(base, hash) ==
    join(<<base, S_objects_pack \o S_pack_dash \o hash \o S_dot_pack>>)

\* crypto.randomUUID(): a name no stored pack of the repository has; the
\* model takes the first unused one of 1, 2, 3, ... in hex
freshHash(bucket, base) ==
    LET used == {n \in 1..(Cardinality(DOMAIN bucket) + 1) :
                    packKey(base, toString16(n)) \in DOMAIN bucket}
    IN  toString16(CHOOSE n \in 1..(Cardinality(DOMAIN bucket) + 1) :
                       n \notin used /\ \A m \in 1..(n - 1) : m \in used)

----------------------------------------------------------------------------
(* Inputs: repositories, ids, ref names, push bodies, requests. *)

\* number of requests served in one behaviour
MaxReqs == 3

Procs == {"p1", "p2"}

Org == <<"o">>
RepoF == <<"f">>
RepoFB == <<"f", "b">>
Repos == {RepoF, RepoFB}

OidA == Rep("a", 40)
OidB == Rep("b", 40)
OidC == Rep("c", 40)
\* a new id that is no object id
OidBad == <<"z", "z">>

RefMain == S_refs_heads \o S_main
RefDev == S_refs_heads \o S_dev

Cmd(old, new, ref) == [old |-> old, new |-> new, ref |-> ref]

\* what a git client sends: one pkt-line per command, the first one with
\* its capability list after a NUL, a flush, then the pack
commandLines(cs) ==
    [i \in 1..Len(cs) |->
        pktLine(cs[i].old \o <<" ">> \o cs[i].new \o <<" ">> \o cs[i].ref
                \o (IF i = 1 THEN <<NUL>> \o S_client_caps ELSE << >>)
                \o <<LF>>)]

pushBody(cs, pack) == concat(commandLines(cs)) \o S_flush \o pack

Pack1 == S_PACK \o <<"1">>

CommandLists ==
    { <<Cmd(zeroOid, OidA, RefMain)>>,
      <<Cmd(OidA, OidB, RefMain)>>,
      <<Cmd(OidA, OidC, RefMain)>>,
      <<Cmd(zeroOid, OidBad, RefMain)>>,
      <<Cmd(OidA, zeroOid, RefMain)>>,
      <<Cmd(zeroOid, OidA, RefMain), Cmd(zeroOid, OidB, RefDev)>>,
      <<Cmd(OidB, OidA, RefMain), Cmd(zeroOid, OidB, RefDev)>>,
      <<Cmd(zeroOid, OidB, RefDev), Cmd(OidB, OidA, RefMain)>>,
      <<Cmd(OidB, OidA, RefMain), Cmd(zeroOid, OidC, RefMain)>>,
      << >> }

Bodies == {pushBody(cs, Pack1) : cs \in CommandLists}

\* a second pack, pushed with its own command
Pack2 == S_PACK \o <<"2">>

SecondPush == [cs |-> <<Cmd(OidA, OidB, RefMain)>>, pack |-> Pack2]

\* pushes a git client does not send every day: no pack after the
\* commands, PACK in a ref name, a ref name that is the key of a pack,
\* the ref name HEAD
RefPACK == S_refs_heads \o S_PACK
RefPackOne == S_objects_pack \o S_pack_dash \o <<"1">> \o S_dot_pack

WellFormed(cs, pack) ==
    [cs |-> cs, pack |-> pack, body |-> pushBody(cs, pack),
     malformed |-> FALSE]

OddPushes ==
    { WellFormed(<<Cmd(OidA, zeroOid, RefMain)>>, << >>),
      WellFormed(<<Cmd(zeroOid, OidA, RefPACK)>>, << >>),
      WellFormed(<<Cmd(zeroOid, OidB, RefPACK)>>, Pack1),
      WellFormed(<<Cmd(zeroOid, OidA, RefPackOne)>>, Pack2),
      WellFormed(<<Cmd(zeroOid, OidC, S_HEAD)>>, Pack1) }

\* a body whose command section is the lines of cs and then tail, where a
\* flush should stand
Malformed(cs, tail, pack) ==
    [cs |-> cs, pack |-> pack,
     body |-> concat(commandLines(cs)) \o tail \o pack,
     malformed |-> TRUE]

\* a length field that is no hex number (in whole, and after two digits),
\* a length that runs past the end of the body, and no flush at all
MalformedPushes ==
    { Malformed(<<Cmd(zeroOid, OidA, RefMain)>>,
                <<"z", "z", "z", "z">>, Pack1),
      Malformed(<<Cmd(zeroOid, OidB, RefMain)>>,
                <<"0", "0", "z", "z">>, Pack1),
      Malformed(<<Cmd(zeroOid, OidC, RefMain)>>,
                <<"0", "0", "f", "f">> \o OidA \o <<" ">> \o OidB \o <<" ">>
                \o RefDev \o <<LF>> \o S_flush, Pack1),
      Malformed(<<Cmd(zeroOid, OidA, RefDev)>>, << >>, Pack1),
      Malformed(<<Cmd(zeroOid, OidB, RefDev)>>, << >>, << >>) }

\* every push of the menus: its commands, its pack and its body
Pushes ==
    {WellFormed(cs, Pack1) : cs \in CommandLists}
    \cup {WellFormed(SecondPush.cs, SecondPush.pack)}
    \cup OddPushes
    \cup MalformedPushes

InfoRefs(repo, service) ==
    [kind |-> "info", org |-> Org, repo |-> repo, service |-> service,
     body |-> << >>]

UploadPack(repo) ==
    [kind |-> "upload", org |-> Org, repo |-> repo, service |-> << >>,
     body |-> << >>]

ReceivePack(repo, body) ==
    [kind |-> "receive", org |-> Org, repo |-> repo, service |-> << >>,
     body |-> body]

Requests ==
    {InfoRefs(r, s) : r \in Repos, s \in {S_upload_pack, S_receive_pack}}
    \cup {UploadPack(r) : r \in Repos}
    \cup {ReceivePack(r, b) : r \in Repos, b \in Bodies}
    \cup {ReceivePack(RepoF, pushBody(SecondPush.cs, SecondPush.pack))}

\* the requests of EdgeSpec: the odd and malformed pushes as well
MaxEdgeReqs == 2

EdgeRequests ==
    Requests
    \cup {ReceivePack(RepoF, m.body) : m \in OddPushes \cup MalformedPushes}

\* requests served in one behaviour of FailSpec
MaxFailReqs == 2

\* the requests that race with each other in ConcSpec
ConcRequests ==
    {InfoRefs(RepoF, S_receive_pack), UploadPack(RepoF)}
    \cup {ReceivePack(RepoF, pushBody(cs, Pack1)) :
             cs \in { <<Cmd(zeroOid, OidA, RefMain)>>,
                      <<Cmd(OidA, OidB, RefMain)>>,
                      <<Cmd(OidA, OidC, RefMain)>> }}

\* stored packs of many lengths: up to MaxShort bytes, and one byte less
\* than, exactly, and one byte more than 1..MaxFrames full chunks
MaxShort == 48
MaxFrames == 2

PackLengths ==
    (1..MaxShort)
    \cup {k * MAX + d : k \in 1..MaxFrames, d \in {-1, 0, 1}}

\* a pack of n bytes: the signature, then bytes that change with the offset
BigPack(n) ==
    [i \in 1..n |-> IF i <= 4 THEN S_PACK[i] ELSE HexDigits[(i % 16) + 1]]

\* payloads of many lengths: up to MaxPayload bytes, the lengths at
\* which the length field gets one more digit, and the two longest ones
MaxPayload == 6
\* where the frame is cut in two reads: nowhere (0), or after 1..MaxCut bytes
MaxCut == 5

PayloadLengths ==
    (0..MaxPayload) \cup {11, 12, 251, 252, 4091, 4092, 65530, 65531}

TextBytes == <<"a", " ", "0", LF, "F", "z", "/">>

\* a payload of n bytes: text, or bytes with 0xff among them
Payload(kind, n) ==
    [i \in 1..n |->
        IF kind = "bytes" /\ i % 5 = 1 THEN XFF
        ELSE TextBytes[(i % 7) + 1]]

\* the reads that deliver a frame
Chunks(frame, cut) ==
    IF cut = 0 \/ cut >= Len(frame) THEN <<frame>>
    ELSE <<SubSeq(frame, 1, cut), SubSeq(frame, cut + 1, Len(frame))>>

\* push bodies for the second worker: up to MaxLines command lines and a
\* flush, delivered in up to MaxReads reads
MaxLines == 2
MaxReads == 2

\* short command lines: old id, new id, ref name
LinePayloads ==
    { <<"x", " ", "y", " ", "r">>,
      <<"y", " ", "z", " ", "s", LF>> }

FrameLists == UNION {[1..n -> LinePayloads] : n \in 1..MaxLines}

streamOf(fs) == concat([i \in 1..Len(fs) |-> pktLine(fs[i])]) \o S_flush

\* the places where a stream of n bytes may be cut into reads
CutSets(n) ==
    UNION {{ {c[i] : i \in 1..k} : c \in [1..k -> 1..(n - 1)] } :
              k \in 0..(MaxReads - 1)}

RECURSIVE SplitAt(_, _)
\* the reads that deliver s when it is cut after the bytes of cuts
SplitAt(s, cuts) ==
    IF cuts = {} THEN <<s>>
    ELSE LET c == CHOOSE x \in cuts : \A y \in cuts : x <= y
         IN  <<SubSeq(s, 1, c)>>
             \o SplitAt(SubSeq(s, c + 1, Len(s)), {x - c : x \in cuts \ {c}})

NoRequest ==
    [kind |-> "none", org |-> << >>, repo |-> << >>, service |-> << >>,
     body |-> << >>]

NoResponse == [status |-> 0, body |-> << >>]

----------------------------------------------------------------------------
(* State. *)

VARIABLES
    bucket,     \* the R2 bucket: key -> [data, uploaded]
    clock,      \* the time of the last put
    nreq,       \* requests accepted so far
    pc,         \* where each request is in its handler
    req,        \* the request a process serves
    before,     \* the bucket when the request was accepted
    exists,     \* handleInfoRefs: const exists
    listing,    \* listRefs / handleUploadPack: list.objects
    refs,       \* listRefs: refs
    cmds,       \* handleReceivePack: commands
    idx,        \* loop position in listing or cmds
    current,    \* handleReceivePack: current
    seen,       \* the values current took, one per command read so far
    results,    \* handleReceivePack: results
    resp,       \* the response returned
    fetch,      \* PackSpec: the length of the stored pack, and the sizes
                \* of the reply handleUploadPack makes for it
    codec,      \* CodecSpec: a payload, how its frame is delivered, and
                \* the size of what parsePktLine returns
    reader      \* StreamSpec: the push loop of the second worker: what
                \* the body stream has still to deliver, the lines read
                \* so far and the records put

vars ==
    <<bucket, clock, nreq, pc, req, before, exists, listing, refs, cmds,
      idx, current, seen, results, resp, fetch, codec, reader>>

\* the variables of the specifications of single functions
pure == <<fetch, codec, reader>>

NoFetch == [len |-> 0, stage |-> "none", frames |-> << >>, size |-> 0]

NoCodec ==
    [kind |-> "none", len |-> 0, cut |-> 0, stage |-> "none",
     null |-> FALSE, size |-> 0]

NoReader ==
    [frames |-> << >>, chunks |-> << >>, lines |-> << >>, store |-> << >>,
     stage |-> "none"]

locals == <<exists, listing, refs, cmds, idx, current, seen, results>>

\* no request yet, an empty bucket
Idle ==
    /\ bucket = << >>
    /\ clock = 0
    /\ nreq = 0
    /\ pc = [p \in Procs |-> "idle"]
    /\ req = [p \in Procs |-> NoRequest]
    /\ before = [p \in Procs |-> << >>]
    /\ exists = [p \in Procs |-> FALSE]
    /\ listing = [p \in Procs |-> << >>]
    /\ refs = [p \in Procs |-> << >>]
    /\ cmds = [p \in Procs |-> << >>]
    /\ idx = [p \in Procs |-> 0]
    /\ current = [p \in Procs |-> << >>]
    /\ seen = [p \in Procs |-> << >>]
    /\ results = [p \in Procs |-> << >>]
    /\ resp = [p \in Procs |-> NoResponse]

Init == Idle /\ fetch = NoFetch /\ codec = NoCodec /\ reader = NoReader

----------------------------------------------------------------------------
(* Steps.  A handler runs from one bucket operation to the next; each      *)
(* step below is one bucket operation (or the parse of the body) together  *)
(* with the code that follows it up to the next bucket operation.          *)

base(p) == repoBase(req[p].org, req[p].repo)

Respond(p, status, body) ==
    /\ resp' = [resp EXCEPT ![p] = [status |-> status, body |-> body]]
    /\ pc' = [pc EXCEPT ![p] = "done"]

Put(key, value) ==
    /\ bucket' = R2put(bucket, key, value, clock + 1)
    /\ clock' = clock + 1

\* fetch: a request arrives and is routed to its handler
Accept(p, r) ==
    /\ pc[p] \in {"idle", "done", "failed"}
    /\ nreq' = nreq + 1
    /\ req' = [req EXCEPT ![p] = r]
    /\ before' = [before EXCEPT ![p] = bucket]
    /\ pc' = [pc EXCEPT ![p] =
                 CASE r.kind = "info" -> "info_exists"
                   [] r.kind = "upload" -> "upload_list"
                   [] r.kind = "receive" -> "receive_parse"]
    /\ resp' = [resp EXCEPT ![p] = NoResponse]
    /\ exists' = [exists EXCEPT ![p] = FALSE]
    /\ listing' = [listing EXCEPT ![p] = << >>]
    /\ refs' = [refs EXCEPT ![p] = << >>]
    /\ cmds' = [cmds EXCEPT ![p] = << >>]
    /\ idx' = [idx EXCEPT ![p] = 0]
    /\ current' = [current EXCEPT ![p] = << >>]
    /\ seen' = [seen EXCEPT ![p] = << >>]
    /\ results' = [results EXCEPT ![p] = << >>]
    /\ UNCHANGED pure
    /\ UNCHANGED <<bucket, clock>>

\* handleInfoRefs: repoExists, then the two tests on exists
InfoExists(p) ==
    /\ pc[p] = "info_exists"
    /\ LET e == repoExists(bucket, req[p].org, req[p].repo)
       IN  /\ exists' = [exists EXCEPT ![p] = e]
           /\ IF ~e /\ req[p].service = S_receive_pack
              THEN /\ pc' = [pc EXCEPT ![p] = "info_init_head"]
                   /\ UNCHANGED resp
              ELSE IF ~e /\ req[p].service = S_upload_pack
              THEN Respond(p, 404, << >>)
              ELSE /\ pc' = [pc EXCEPT ![p] = "info_list"]
                   /\ UNCHANGED resp
    /\ UNCHANGED pure
    /\ UNCHANGED <<bucket, clock, nreq, req, before, listing, refs, cmds,
                   idx, current, seen, results>>

\* initRepo: put HEAD
InfoInitHead(p) ==
    /\ pc[p] = "info_init_head"
    /\ Put(join(<<base(p), S_HEAD>>), S_head_target)
    /\ pc' = [pc EXCEPT ![p] = "info_init_main"]
    /\ UNCHANGED pure
    /\ UNCHANGED <<nreq, req, before, resp, locals>>

\* initRepo: put refs/heads/main
InfoInitMain(p) ==
    /\ pc[p] = "info_init_main"
    /\ Put(join(<<base(p), S_refs_heads \o S_main>>), zeroOid \o <<LF>>)
    /\ pc' = [pc EXCEPT ![p] = "info_list"]
    /\ UNCHANGED pure
    /\ UNCHANGED <<nreq, req, before, resp, locals>>

\* listRefs: list the keys under refs/heads/
InfoList(p) ==
    /\ pc[p] = "info_list"
    /\ LET prefix == join(<<S_repos, req[p].org, req[p].repo, S_refs_heads>>)
           keys == R2list(bucket, prefix)
       IN  /\ listing' = [listing EXCEPT ![p] = keys]
           /\ idx' = [idx EXCEPT ![p] = 1]
           /\ IF keys = << >>
              THEN Respond(p, 200, advertisement(req[p].service, << >>))
              ELSE /\ pc' = [pc EXCEPT ![p] = "info_get"]
                   /\ UNCHANGED resp
    /\ UNCHANGED pure
    /\ UNCHANGED <<bucket, clock, nreq, req, before, exists, refs, cmds,
                   current, seen, results>>

\* listRefs: get one listed object; after the last one, the advertisement
InfoGet(p) ==
    /\ pc[p] = "info_get"
    /\ LET prefix == join(<<S_repos, req[p].org, req[p].repo, S_refs_heads>>)
           key == listing[p][idx[p]].key
           name == sliceFrom(key, Len(prefix))
           sha == trim(bucket[key].data)
           refs2 == IF sha # << >>
                    THEN refsSet(refs[p], S_refs_heads \o name, sha)
                    ELSE refs[p]
       IN  IF key \notin DOMAIN bucket
           THEN /\ Respond(p, 500, << >>)
                /\ UNCHANGED <<refs, idx>>
           ELSE /\ refs' = [refs EXCEPT ![p] = refs2]
                /\ idx' = [idx EXCEPT ![p] = idx[p] + 1]
                /\ IF idx[p] = Len(listing[p])
                   THEN Respond(p, 200, advertisement(req[p].service, refs2))
                   ELSE UNCHANGED <<pc, resp>>
    /\ UNCHANGED pure
    /\ UNCHANGED <<bucket, clock, nreq, req, before, exists, listing, cmds,
                   current, seen, results>>

\* handleUploadPack: list the packs; no pack, a lone flush
UploadList(p) ==
    /\ pc[p] = "upload_list"
    /\ LET prefix == join(<<S_repos, req[p].org, req[p].repo, S_objects_pack>>)
           objects == R2list(bucket, prefix)
       IN  /\ listing' = [listing EXCEPT ![p] = objects]
           /\ IF Len(objects) = 0
              THEN Respond(p, 200, pktFlush)
              ELSE /\ pc' = [pc EXCEPT ![p] = "upload_get"]
                   /\ UNCHANGED resp
    /\ UNCHANGED pure
    /\ UNCHANGED <<bucket, clock, nreq, req, before, exists, refs, cmds,
                   idx, current, seen, results>>

\* handleUploadPack: get the latest pack and frame it
UploadGet(p) ==
    /\ pc[p] = "upload_get"
    /\ LET key == latestKey(listing[p])
       IN  IF key \notin DOMAIN bucket
           THEN Respond(p, 500, << >>)
           ELSE Respond(p, 200, uploadResult(bucket[key].data))
    /\ UNCHANGED pure
    /\ UNCHANGED <<bucket, clock, nreq, req, before, locals>>

\* after command number i: the next command, or the pack
afterCommand(commands, i) ==
    IF i < Len(commands) THEN "receive_read" ELSE "receive_store"

\* handleReceivePack: read the body and parse its command section
ReceiveParse(p) ==
    /\ pc[p] = "receive_parse"
    /\ LET r == parseReceiveCommands(req[p].body)
       IN  IF r.threw
           THEN /\ Respond(p, 500, << >>)
                /\ UNCHANGED <<cmds, results, idx>>
           ELSE /\ cmds' = [cmds EXCEPT ![p] = r.commands]
                /\ results' = [results EXCEPT ![p] = <<pktLine(S_unpack_ok)>>]
                /\ idx' = [idx EXCEPT ![p] = 1]
                /\ pc' = [pc EXCEPT ![p] = afterCommand(r.commands, 0)]
                /\ UNCHANGED resp
    /\ UNCHANGED pure
    /\ UNCHANGED <<bucket, clock, nreq, req, before, exists, listing, refs,
                   current, seen>>

\* handleReceivePack: readRef for the command at idx, then the comparison
ReceiveRead(p) ==
    /\ pc[p] = "receive_read"
    /\ LET cmd == cmds[p][idx[p]]
           cur == readRef(bucket, base(p), cmd.ref)
       IN  /\ current' = [current EXCEPT ![p] = cur]
           /\ seen' = [seen EXCEPT ![p] = Append(seen[p], cur)]
           /\ IF rejects(cur, cmd)
              THEN /\ results' = [results EXCEPT ![p] =
                                     Append(results[p], ngLine(cmd.ref))]
                   /\ idx' = [idx EXCEPT ![p] = idx[p] + 1]
                   /\ pc' = [pc EXCEPT ![p] = afterCommand(cmds[p], idx[p])]
              ELSE /\ pc' = [pc EXCEPT ![p] = "receive_put"]
                   /\ UNCHANGED <<results, idx>>
    /\ UNCHANGED pure
    /\ UNCHANGED <<bucket, clock, nreq, req, before, resp, exists, listing,
                   refs, cmds>>

\* handleReceivePack: put the new id of the command at idx
ReceivePut(p) ==
    /\ pc[p] = "receive_put"
    /\ LET cmd == cmds[p][idx[p]]
       IN  /\ Put(refKey(base(p), cmd.ref), refRecord(cmd))
           /\ results' = [results EXCEPT ![p] =
                             Append(results[p], okLine(cmd.ref))]
           /\ idx' = [idx EXCEPT ![p] = idx[p] + 1]
           /\ pc' = [pc EXCEPT ![p] = afterCommand(cmds[p], idx[p])]
    /\ UNCHANGED pure
    /\ UNCHANGED <<nreq, req, before, resp, exists, listing, refs, cmds,
                   current, seen>>

\* handleReceivePack: store the pack under a random name, then respond
ReceiveStore(p) ==
    /\ pc[p] = "receive_store"
    /\ LET buf == req[p].body
           pack == sliceFrom(buf, findPackStart(buf))
       IN  IF Len(pack) > 0
           THEN Put(packKey(base(p), freshHash(bucket, base(p))), pack)
           ELSE UNCHANGED <<bucket, clock>>
    /\ Respond(p, 200, receiveResult(results[p]))
    /\ UNCHANGED pure
    /\ UNCHANGED <<nreq, req, before, locals>>

\* the bucket operation the handler of p is about to do
AtBucketOperation(p) ==
    \/ pc[p] \in {"info_exists", "info_init_head", "info_init_main",
                   "info_list", "info_get", "upload_list", "upload_get",
                   "receive_read", "receive_put"}
    \/ /\ pc[p] = "receive_store"
       /\ Len(sliceFrom(req[p].body, findPackStart(req[p].body))) > 0

\* a failure that undoes what the request wrote
StorageFailsRollback(p) ==
    /\ AtBucketOperation(p)
    /\ pc' = [pc EXCEPT ![p] = "failed"]
    /\ resp' = [resp EXCEPT ![p] = [status |-> 500, body |-> << >>]]
    /\ bucket' = before[p]
    /\ UNCHANGED pure
    /\ UNCHANGED <<clock, nreq, req, before, locals>>

\* the awaited bucket operation rejects: no handler catches, the
\* exception leaves fetch and the request is answered 500; what was put
\* before stays
StorageFails(p) ==
    /\ AtBucketOperation(p)
    /\ pc' = [pc EXCEPT ![p] = "failed"]
    /\ resp' = [resp EXCEPT ![p] = [status |-> 500, body |-> << >>]]
    /\ UNCHANGED pure
    /\ UNCHANGED <<bucket, clock, nreq, req, before, locals>>

----------------------------------------------------------------------------
(* Specifications. *)

Step(p) ==
    \/ InfoExists(p)
    \/ InfoInitHead(p)
    \/ InfoInitMain(p)
    \/ InfoList(p)
    \/ InfoGet(p)
    \/ UploadList(p)
    \/ UploadGet(p)
    \/ ReceiveParse(p)
    \/ ReceiveRead(p)
    \/ ReceivePut(p)
    \/ ReceiveStore(p)

\* one request at a time
Next ==
    \/ nreq < MaxReqs /\ \E r \in Requests : Accept("p1", r)
    \/ Step("p1")

Spec == Init /\ [][Next]_vars

\* number of requests served in one behaviour of ConcSpec
MaxConcReqs == 3

\* two requests in flight; the two workers are interchangeable, so the
\* first request of a behaviour goes to p1
ConcNext ==
    \E p \in Procs :
        \/ /\ nreq < MaxConcReqs
           /\ p = "p2" => pc["p1"] # "idle"
           /\ \E r \in ConcRequests : Accept(p, r)
        \/ Step(p)

ConcSpec == Init /\ [][ConcNext]_vars

\* One request after the other, on a bucket whose operations may fail.
FailNext ==
    \/ (nreq < MaxFailReqs /\ \E r \in Requests : Accept("p1", r))
    \/ Step("p1")
    \/ StorageFails("p1")

FailSpec == Init /\ [][FailNext]_vars

\* One request after the other, the odd and malformed pushes among them.
EdgeNext ==
    \/ (nreq < MaxEdgeReqs /\ \E r \in EdgeRequests : Accept("p1", r))
    \/ Step("p1")

EdgeSpec == Init /\ [][EdgeNext]_vars

\* handleUploadPack on a stored pack of any of PackLengths: the pack is
\* BigPack(fetch.len); the state keeps the sizes of the reply, not its
\* bytes.
PackInit ==
    /\ Idle
    /\ fetch \in {[len |-> n, stage |-> "stored", frames |-> << >>,
                    size |-> 0] : n \in PackLengths}
    /\ codec = NoCodec
    /\ reader = NoReader

FetchPack ==
    /\ fetch.stage = "stored"
    /\ LET packData == BigPack(fetch.len)
           chunks == packChunks(packData, 0)
       IN  fetch' = [fetch EXCEPT
                        !.stage = "sent",
                        !.frames = [k \in 1..Len(chunks) |-> Len(chunks[k])],
                        !.size = Len(uploadResult(packData))]
    /\ UNCHANGED <<bucket, clock, nreq, pc, req, before, resp, locals, codec,
                   reader>>

PackNext == FetchPack

PackSpec == PackInit /\ [][PackNext]_vars

\* pktLine and then parsePktLine on a payload: the payload is
\* Payload(codec.kind, codec.len), its frame comes in the reads
\* Chunks(frame, codec.cut); the state keeps the size of the line
\* returned, not its bytes.
CodecInit ==
    /\ Idle
    /\ fetch = NoFetch
    /\ codec \in {[kind |-> k, len |-> n, cut |-> c, stage |-> "framed",
                    null |-> FALSE, size |-> 0] :
                      k \in {"text", "bytes"}, n \in PayloadLengths,
                      c \in 0..MaxCut}
    /\ codec.kind = "bytes" => codec.len >= 1
    /\ codec.cut < codec.len + 4
    /\ reader = NoReader

DecodeFrame ==
    /\ codec.stage = "framed"
    /\ LET frame == pktLine(Payload(codec.kind, codec.len))
           r == parsePktLine(Chunks(frame, codec.cut))
       IN  codec' = [codec EXCEPT !.stage = "decoded",
                                  !.null = r.line.null,
                                  !.size = Len(r.line.text)]
    /\ UNCHANGED <<bucket, clock, nreq, pc, req, before, resp, locals, fetch,
                   reader>>

CodecNext == DecodeFrame

CodecSpec == CodecInit /\ [][CodecNext]_vars

\* The push of the second worker: parsePktLine is called on the reader of
\* the request body until it returns null; every line with a ref name
\* puts the ref, and HEAD when there is none.
StreamInit ==
    /\ Idle
    /\ fetch = NoFetch
    /\ codec = NoCodec
    /\ \E fs \in FrameLists : \E cuts \in CutSets(Len(streamOf(fs))) :
           reader = [frames |-> fs, chunks |-> SplitAt(streamOf(fs), cuts),
                     lines |-> << >>, store |-> << >>, stage |-> "open"]

\* `${repoPrefix}/${ref}` for the repository o/f
storeKey(ref) == Org \o <<"/">> \o RepoF \o <<"/">> \o ref

\* the body of the while loop: the two puts of a line that names a ref
putLine(store, line) ==
    LET parts == split(trim(line), " ")
    IN  IF Len(parts) < 3 \/ parts[3] = << >> THEN store
        ELSE LET withRef == (storeKey(parts[3]) :> parts[2]) @@ store
             IN  IF storeKey(S_HEAD) \in DOMAIN withRef THEN withRef
                 ELSE (storeKey(S_HEAD) :> (S_ref_colon \o parts[3]))
                      @@ withRef

\* one turn of the loop: a call of parsePktLine and, for a line, the puts
ReadLine ==
    /\ reader.stage = "open"
    /\ LET r == parsePktLine(reader.chunks)
       IN  IF r.line.null
           THEN reader' = [reader EXCEPT !.stage = "ended",
                                         !.chunks = r.chunks]
           ELSE reader' = [reader EXCEPT
                              !.chunks = r.chunks,
                              !.lines = Append(reader.lines, r.line.text),
                              !.store = putLine(reader.store, r.line.text)]
    /\ UNCHANGED <<bucket, clock, nreq, pc, req, before, resp, locals, fetch,
                   codec>>

StreamNext == ReadLine

StreamSpec == StreamInit /\ [][StreamNext]_vars

----------------------------------------------------------------------------
(* What a client sees and what the bucket holds, for the properties. *)

NoItem == [kind |-> "junk", payload |-> << >>]

allHex(s) == \A i \in 1..Len(s) : \E d \in 1..16 : HexDigits[d] = s[i]

RECURSIVE decodeStream(_)
\* a client's reading of a pkt-line stream: data frames and flushes, and
\* junk where the stream stops being well formed
decodeStream(s) ==
    IF s = << >> THEN << >>
    ELSE IF Len(s) < 4 \/ ~allHex(SubSeq(s, 1, 4)) THEN <<NoItem>>
    ELSE LET n == hexNumber(SubSeq(s, 1, 4))
         IN  IF n = 0
             THEN <<[kind |-> "flush", payload |-> << >>]>>
                  \o decodeStream(SubSeq(s, 5, Len(s)))
             ELSE IF n < 4 \/ n > Len(s) THEN <<NoItem>>
             ELSE <<[kind |-> "data", payload |-> SubSeq(s, 5, n)]>>
                  \o decodeStream(SubSeq(s, n + 1, Len(s)))

Flush == [kind |-> "flush", payload |-> << >>]

Data(payload) == [kind |-> "data", payload |-> payload]

\* a report-status line as the response carries it: a pkt-line inside a
\* side-band channel 1 frame
StatusFrame(line) ==
    Data(<<SOH>> \o padStart4(toString16(Len(line) + 4)) \o line)

OkFrame(ref) == StatusFrame(S_ok \o ref \o <<LF>>)

NgFrame(ref) == StatusFrame(S_ng \o ref \o S_nff)

\* the commands a push body was built from
Sent(body) == CHOOSE m \in Pushes : m.body = body

SentCommands(body) == Sent(body).cs

RefKeyOf(r, ref) == S_repos \o <<"/">> \o r.org \o <<"/">> \o r.repo
                    \o <<"/">> \o ref

\* the record of a key: its bytes, or the mark of a missing record
Record(b, key) == IF key \in DOMAIN b THEN b[key].data ELSE <<"absent">>

\* the id a ref denotes: the zero id for a missing or blank record
StoredId(b, key) ==
    IF key \notin DOMAIN b \/ trim(b[key].data) = << >> THEN zeroOid
    ELSE trim(b[key].data)

Served(p, kind) == pc[p] = "done" /\ req[p].kind = kind

Reply(p) == decodeStream(resp[p].body)

----------------------------------------------------------------------------
(* C1 *)

\* p and q served pushes of one command each, on the same ref of the same
\* repository, with the same old id, which was the stored id when each of
\* them was accepted, and different new ids
Racing(p, q) ==
    /\ p # q
    /\ Served(p, "receive") /\ Served(q, "receive")
    /\ resp[p].status = 200 /\ resp[q].status = 200
    /\ req[p].org = req[q].org /\ req[p].repo = req[q].repo
    /\ LET cp == SentCommands(req[p].body)
           cq == SentCommands(req[q].body)
       IN  /\ Len(cp) = 1 /\ Len(cq) = 1
           /\ cp[1].ref = cq[1].ref
           /\ cp[1].old = cq[1].old
           /\ cp[1].new # cq[1].new
           /\ StoredId(before[p], RefKeyOf(req[p], cp[1].ref)) = cp[1].old
           /\ StoredId(before[q], RefKeyOf(req[q], cq[1].ref)) = cq[1].old

\* C1: of two concurrent pushes on the same ref that declare the same old
\* id, the stored one, and different new ids, exactly one is reported ok
\* and the other ng non-fast-forward, and the ref ends with the new id of
\* the one reported ok.
C1_ExactlyOneWins ==
    \A p \in Procs : \A q \in Procs :
        Racing(p, q) =>
            LET ref == SentCommands(req[p].body)[1].ref
            IN  \E w \in {p, q} : \E l \in {p, q} \ {w} :
                    /\ Reply(w)[2] = OkFrame(ref)
                    /\ Reply(l)[2] = NgFrame(ref)
                    /\ StoredId(bucket, RefKeyOf(req[w], ref))
                           = SentCommands(req[w].body)[1].new

----------------------------------------------------------------------------
(* C2 *)

\* p has answered a push whose command section parsed
Pushed(p) == Served(p, "receive") /\ resp[p].status = 200

\* command k of the push served by p declares a non-zero old id that
\* differs from the id stored for its ref when the command was read
Stale(p, k) ==
    LET c == SentCommands(req[p].body)[k]
    IN  c.old # zeroOid /\ c.old # seen[p][k]

\* a later command of the same push, on the same ref, was reported ok
LaterAccepted(p, k) ==
    LET cs == SentCommands(req[p].body)
    IN  \E j \in (k + 1)..Len(cs) :
            cs[j].ref = cs[k].ref /\ Reply(p)[j + 1] = OkFrame(cs[j].ref)

\* C2 as stated: a command with a non-zero old id X that differs from the
\* stored id Y is answered ng non-fast-forward and the ref still holds Y
\* after the request.
C2_StaleKeepsValue ==
    \A p \in Procs :
        Pushed(p) =>
            \A k \in 1..Len(SentCommands(req[p].body)) :
                Stale(p, k) =>
                    LET c == SentCommands(req[p].body)[k]
                    IN  /\ Reply(p)[k + 1] = NgFrame(c.ref)
                        /\ StoredId(bucket, RefKeyOf(req[p], c.ref))
                               = seen[p][k]

\* C2 amended: a command with a non-zero old id X that differs from the
\* stored id Y is answered ng non-fast-forward, and the ref still holds Y
\* after the request unless a later command of the same request on that
\* ref is accepted.
C2_StaleRejected ==
    \A p \in Procs :
        Pushed(p) =>
            \A k \in 1..Len(SentCommands(req[p].body)) :
                Stale(p, k) =>
                    LET c == SentCommands(req[p].body)[k]
                    IN  /\ Reply(p)[k + 1] = NgFrame(c.ref)
                        /\ \/ LaterAccepted(p, k)
                           \/ StoredId(bucket, RefKeyOf(req[p], c.ref))
                                  = seen[p][k]

\* a push was refused on a ref that holds a*40, which it still holds
C2_Witness ==
    \E p \in Procs :
        /\ Pushed(p)
        /\ \E k \in 1..Len(SentCommands(req[p].body)) :
               LET c == SentCommands(req[p].body)[k]
               IN  /\ Stale(p, k)
                   /\ seen[p][k] = OidA
                   /\ Reply(p)[k + 1] = NgFrame(c.ref)
                   /\ StoredId(bucket, RefKeyOf(req[p], c.ref)) = OidA

----------------------------------------------------------------------------
(* C3 *)

\* nothing is stored under the prefix repos/<org>/<repo>/
EmptyRepo(b, r) ==
    \A key \in DOMAIN b :
        ~startsWith(key, S_repos \o <<"/">> \o r.org \o <<"/">> \o r.repo
                         \o <<"/">>)

\* p served a push of the one command (zero id, N, refs/heads/main) to a
\* repository that held nothing
FirstPush(p) ==
    /\ Served(p, "receive")
    /\ ~Sent(req[p].body).malformed
    /\ EmptyRepo(before[p], req[p])
    /\ LET cs == SentCommands(req[p].body)
       IN  Len(cs) = 1 /\ cs[1].old = zeroOid /\ cs[1].ref = RefMain

\* C3: a push of (zero id, N, refs/heads/main) to an empty repository is
\* reported ok refs/heads/main, and refs/heads/main then reads N.
C3_FirstPushSucceeds ==
    \A p \in Procs :
        FirstPush(p) =>
            /\ resp[p].status = 200
            /\ Reply(p)[2] = OkFrame(RefMain)
            /\ StoredId(bucket, RefKeyOf(req[p], RefMain))
                   = SentCommands(req[p].body)[1].new

C3_Witness ==
    \E p \in Procs :
        /\ FirstPush(p)
        /\ SentCommands(req[p].body)[1].new = OidA
        /\ StoredId(bucket, RefKeyOf(req[p], RefMain)) = OidA

----------------------------------------------------------------------------
(* C4 *)

\* C4: the response to a parsed push of n commands is n + 1 side-band
\* channel 1 frames and then one flush: unpack ok first, then the ok or ng
\* line of each command in the order received.
C4_OneLinePerCommand ==
    \A p \in Procs :
        Pushed(p) =>
            LET cs == SentCommands(req[p].body)
                items == Reply(p)
            IN  /\ Len(items) = Len(cs) + 2
                /\ items[1] = StatusFrame(S_unpack_ok)
                /\ \A k \in 1..Len(cs) :
                       items[k + 1] = IF Stale(p, k) THEN NgFrame(cs[k].ref)
                                      ELSE OkFrame(cs[k].ref)
                /\ items[Len(cs) + 2] = Flush

\* a push of two commands, the first refused and the second accepted
C4_Witness ==
    \E p \in Procs :
        /\ Pushed(p)
        /\ Len(SentCommands(req[p].body)) = 2
        /\ Len(Reply(p)) = 4
        /\ Reply(p)[2] = NgFrame(RefMain)
        /\ Reply(p)[3] = OkFrame(RefDev)

----------------------------------------------------------------------------
(* C5 *)

\* p served a push of several commands, all on different refs
MultiRef(p) ==
    /\ Pushed(p)
    /\ LET cs == SentCommands(req[p].body)
       IN  /\ Len(cs) >= 2
           /\ \A i \in 1..Len(cs) : \A j \in 1..Len(cs) :
                  i # j => cs[i].ref # cs[j].ref

IsPackKey(r, key) ==
    startsWith(key, S_repos \o <<"/">> \o r.org \o <<"/">> \o r.repo
                    \o <<"/">> \o S_objects_pack)

\* C5: in a push of several commands on different refs, every command
\* reported ok leaves its ref holding its new id, wherever the refused
\* commands stand in the request, and nothing else changes: the ref of a
\* refused command and every other record are as before (the pack stored
\* by the push aside).
C5_NoCrossRefAtomicity ==
    \A p \in Procs :
        MultiRef(p) =>
            LET cs == SentCommands(req[p].body)
                okKeys == {RefKeyOf(req[p], cs[k].ref) :
                              k \in {i \in 1..Len(cs) :
                                        Reply(p)[i + 1] = OkFrame(cs[i].ref)}}
            IN  /\ \A k \in 1..Len(cs) :
                       Reply(p)[k + 1] = OkFrame(cs[k].ref) =>
                           Record(bucket, RefKeyOf(req[p], cs[k].ref))
                               = cs[k].new \o <<LF>>
                /\ \A k \in 1..Len(cs) :
                       Reply(p)[k + 1] = NgFrame(cs[k].ref) =>
                           Record(bucket, RefKeyOf(req[p], cs[k].ref))
                               = Record(before[p], RefKeyOf(req[p], cs[k].ref))
                /\ \A key \in (DOMAIN bucket) \cup (DOMAIN before[p]) :
                       \/ key \in okKeys
                       \/ Record(bucket, key) = Record(before[p], key)
                       \/ key \notin DOMAIN before[p] /\ IsPackKey(req[p], key)

\* the update of refs/heads/dev stays although the later command on
\* refs/heads/main was refused
C5_Witness ==
    \E p \in Procs :
        /\ MultiRef(p)
        /\ Reply(p)[2] = OkFrame(RefDev)
        /\ Reply(p)[3] = NgFrame(RefMain)
        /\ StoredId(bucket, RefKeyOf(req[p], RefDev)) = OidB
        /\ StoredId(before[p], RefKeyOf(req[p], RefDev)) # OidB

----------------------------------------------------------------------------
(* C6 *)

\* key is a record under refs/heads/ of one of the repositories
IsHeadsKey(key) ==
    \E r \in Repos :
        LET prefix == S_repos \o <<"/">> \o Org \o <<"/">> \o r \o <<"/">>
                      \o S_refs_heads
        IN  startsWith(key, prefix) /\ Len(key) > Len(prefix)

\* 40 lower-case hex characters (the zero id is one of them)
IsOid(s) == Len(s) = 40 /\ allHex(s)

\* C6: every record under refs/heads/ is the zero id or a 40-character hex
\* id, followed by a newline.
C6_RefRecordsAreIds ==
    \A key \in DOMAIN bucket :
        IsHeadsKey(key) =>
            \E id \in {SubSeq(bucket[key].data, 1, Len(bucket[key].data) - 1)} :
                IsOid(id) /\ bucket[key].data = id \o <<LF>>

----------------------------------------------------------------------------
(* C7, C8 *)

RepoPrefix(r) == S_repos \o <<"/">> \o r.org \o <<"/">> \o r.repo \o <<"/">>

\* the names refs/heads/<name> of the non-blank records of repository r
RefNames(b, r) ==
    {SubSeq(key, Len(RepoPrefix(r)) + 1, Len(key)) :
        key \in {k \in DOMAIN b :
                    /\ startsWith(k, RepoPrefix(r) \o S_refs_heads)
                    /\ trim(b[k].data) # << >>}}

\* p answered info/refs with an advertisement
Advertised(p) == Served(p, "info") /\ resp[p].status = 200

CapsOf(service) ==
    IF service = S_receive_pack THEN S_receive_caps ELSE S_upload_caps

ServiceLine(service) == Data(S_service_hdr \o service \o <<LF>>)

\* the payload is <zero id> ... NUL <capabilities> LF
IsCapsPlaceholder(payload, service) ==
    /\ startsWith(payload, zeroOid)
    /\ \E i \in 1..Len(payload) :
           /\ payload[i] = NUL
           /\ SubSeq(payload, i + 1, Len(payload)) = CapsOf(service) \o <<LF>>

\* C7: an advertisement for a repository without listed refs still has,
\* between its two flushes, exactly one line: the zero id, a NUL and the
\* capability string of the service.
C7_CapsWithoutRefs ==
    \A p \in Procs :
        (Advertised(p) /\ RefNames(bucket, req[p]) = {}) =>
            LET items == Reply(p)
            IN  /\ Len(items) = 4
                /\ items[2] = Flush
                /\ items[3].kind = "data"
                /\ IsCapsPlaceholder(items[3].payload, req[p].service)
                /\ items[4] = Flush

\* lexicographic position of a name among the names
Rank(names, nm) == 1 + Cardinality({m \in names : keyLess(m, nm)})

RefLine(b, r, nm, caps) ==
    Data(trim(b[RepoPrefix(r) \o nm].data) \o <<" ">> \o nm \o caps \o <<LF>>)

\* C8: the advertisement of a repository with refs is the service line, a
\* flush, one line <id> <refName> per listed ref in lexicographic order
\* of the names, and a flush; the first ref line, and no other, carries
\* NUL and the capability string.
C8_AdvertisementInOrder ==
    \A p \in Procs :
        (Advertised(p) /\ RefNames(bucket, req[p]) # {}) =>
            LET names == RefNames(bucket, req[p])
                items == Reply(p)
            IN  /\ Len(items) = Cardinality(names) + 3
                /\ items[1] = ServiceLine(req[p].service)
                /\ items[2] = Flush
                /\ \A nm \in names :
                       items[2 + Rank(names, nm)] =
                           RefLine(bucket, req[p], nm,
                               IF Rank(names, nm) = 1
                               THEN <<NUL>> \o CapsOf(req[p].service)
                               ELSE << >>)
                /\ items[Cardinality(names) + 3] = Flush

\* refs {refs/heads/main: a*40, refs/heads/dev: b*40}: the dev line comes
\* first and carries the capabilities
C8_Witness ==
    \E p \in Procs :
        /\ Advertised(p)
        /\ RefNames(bucket, req[p]) = {RefMain, RefDev}
        /\ Reply(p)[3] = Data(OidB \o <<" ">> \o RefDev \o <<NUL>>
                              \o CapsOf(req[p].service) \o <<LF>>)
        /\ Reply(p)[4] = Data(OidA \o <<" ">> \o RefMain \o <<LF>>)

----------------------------------------------------------------------------
(* C9, C10 *)

\* C9: info/refs for git-upload-pack on a repository that does not exist
\* is answered 404 and leaves the bucket as it was.
C9_FetchUnknownRepo ==
    \A p \in Procs :
        (/\ Served(p, "info")
         /\ req[p].service = S_upload_pack
         /\ EmptyRepo(before[p], req[p])) =>
            /\ resp[p].status = 404
            /\ bucket = before[p]
            /\ EmptyRepo(bucket, req[p])

\* C10: info/refs for git-receive-pack on a repository that does not
\* exist creates it: the repository exists afterwards, HEAD holds
\* "ref: refs/heads/main\n", refs/heads/main reads the zero id, and the
\* answer is an advertisement.
C10_PushCreatesRepo ==
    \A p \in Procs :
        (/\ Served(p, "info")
         /\ req[p].service = S_receive_pack
         /\ EmptyRepo(before[p], req[p])) =>
            /\ resp[p].status = 200
            /\ Reply(p)[1] = ServiceLine(S_receive_pack)
            /\ ~EmptyRepo(bucket, req[p])
            /\ Record(bucket, RepoPrefix(req[p]) \o S_HEAD) = S_head_target
            /\ StoredId(bucket, RepoPrefix(req[p]) \o RefMain) = zeroOid

----------------------------------------------------------------------------
(* C11, C12 *)

PackKeys(b, r) == {key \in DOMAIN b : IsPackKey(r, key)}

\* the bytes a fetch delivers: the data of the side-band frames of the
\* reply, the channel byte taken off
RECURSIVE FrameData(_)
FrameData(items) ==
    IF items = << >> \/ Head(items).kind # "data" THEN << >>
    ELSE Tail(Head(items).payload) \o FrameData(Tail(items))

\* C11: a fetch from a repository that holds no pack is answered 200 with
\* a body that is one flush packet, the four bytes 0000, and nothing else.
C11_EmptyFetch ==
    \A p \in Procs :
        (Served(p, "upload") /\ PackKeys(before[p], req[p]) = {})
        => /\ resp[p].status = 200
           /\ resp[p].body = <<"0", "0", "0", "0">>

\* a fetch from a repository that holds refs and no pack was served
C11_Witness ==
    \E p \in Procs :
        /\ Served(p, "upload")
        /\ PackKeys(before[p], req[p]) = {}
        /\ ~EmptyRepo(before[p], req[p])
        /\ resp[p].body = <<"0", "0", "0", "0">>

\* the pack of the greatest upload time
LatestPack(b, r) ==
    CHOOSE k \in PackKeys(b, r) :
        \A j \in PackKeys(b, r) : b[j].uploaded <= b[k].uploaded

\* C12: a fetch from a repository that holds packs delivers the bytes of
\* the pack uploaded last, and of no pack uploaded before it.
C12_LatestPackServed ==
    \A p \in Procs :
        (Served(p, "upload") /\ PackKeys(before[p], req[p]) # {})
        => /\ resp[p].status = 200
           /\ FrameData(Reply(p))
                  = before[p][LatestPack(before[p], req[p])].data
           /\ \A j \in PackKeys(before[p], req[p]) :
                  before[p][j].data
                      # before[p][LatestPack(before[p], req[p])].data
                  => FrameData(Reply(p)) # before[p][j].data

\* pack P1 was stored, then pack P2 with other bytes, and a fetch
\* delivered P2
C12_Witness ==
    \E p \in Procs :
        /\ Served(p, "upload")
        /\ \E j \in PackKeys(before[p], req[p]) :
               \E k \in PackKeys(before[p], req[p]) :
                   /\ before[p][j].uploaded < before[p][k].uploaded
                   /\ before[p][j].data = Pack1
                   /\ before[p][k].data = Pack2
                   /\ k = LatestPack(before[p], req[p])
                   /\ FrameData(Reply(p)) = Pack2

----------------------------------------------------------------------------
(* C13 *)

\* C13: the reply to a fetch of a stored pack is a run of frames and one
\* flush after them; every frame is on channel 1 and declares a length of
\* at most 65520, and the data of the frames, put together in order, are
\* the bytes of the pack.
C13_PackFramed ==
    fetch.stage = "sent"
    => LET pack == BigPack(fetch.len)
           items == decodeStream(uploadResult(pack))
           n == Len(items)
       IN  /\ n = Len(fetch.frames) + 1
           /\ items[n] = Flush
           /\ \A i \in 1..(n - 1) :
                  /\ items[i].kind = "data"
                  /\ Len(items[i].payload) >= 1
                  /\ items[i].payload[1] = SOH
                  /\ Len(items[i].payload) + 4 = fetch.frames[i]
                  /\ fetch.frames[i] <= 65520
           /\ FrameData(items) = pack

\* a pack longer than two full chunks was delivered in three frames,
\* the first of them full
C13_Witness ==
    /\ fetch.stage = "sent"
    /\ fetch.len > MAX + MAX
    /\ Len(fetch.frames) = 3
    /\ fetch.frames[1] = MAX + 5

----------------------------------------------------------------------------
(* C14, C15 *)

\* the pack objects of the repository that the request of p added
NewPacks(p) == PackKeys(bucket, req[p]) \ PackKeys(before[p], req[p])

\* C14: a push stores a pack only if a pack follows its command section,
\* and then the bytes of that pack; a push with no pack after its
\* commands adds no pack object.
C14_PackOnlyWhenSent ==
    \A p \in Procs :
        (Served(p, "receive") /\ ~Sent(req[p].body).malformed)
        => IF Sent(req[p].body).pack = << >>
           THEN NewPacks(p) = {}
           ELSE \A k \in NewPacks(p) :
                    bucket[k].data = Sent(req[p].body).pack

\* C15: a push leaves every pack object it found as it was, key and
\* bytes, and adds at most one pack object.
C15_PacksImmutable ==
    \A p \in Procs :
        Served(p, "receive")
        => /\ \A k \in PackKeys(before[p], req[p]) :
                  k \in DOMAIN bucket /\ bucket[k].data = before[p][k].data
           /\ Cardinality(NewPacks(p)) <= 1

----------------------------------------------------------------------------
(* C17 *)

\* C17: a push whose command section is malformed is not answered 200
\* and writes nothing.
C17_MalformedAborted ==
    \A p \in Procs :
        (Served(p, "receive") /\ Sent(req[p].body).malformed)
        => resp[p].status # 200 /\ bucket = before[p]

----------------------------------------------------------------------------
(* C16 *)

\* the frame of the payload of the state, and the line read back from it
FrameOf(c) == pktLine(Payload(c.kind, c.len))

LineOf(c) == parsePktLine(Chunks(FrameOf(c), c.cut)).line

\* the length field of the frame is four lowercase hex digits that give
\* the length of the payload plus 4, and the payload follows it
FramedRight(c) ==
    /\ Len(FrameOf(c)) = c.len + 4
    /\ allHex(SubSeq(FrameOf(c), 1, 4))
    /\ hexNumber(SubSeq(FrameOf(c), 1, 4)) = c.len + 4
    /\ SubSeq(FrameOf(c), 5, c.len + 4) = Payload(c.kind, c.len)

\* C16: for every payload of 0 to 65531 bytes, the frame pktLine makes
\* has a length field of four lowercase hex digits equal to the length of
\* the payload plus 4, and parsePktLine reads the payload back from it.
C16_RoundTrip ==
    codec.stage = "decoded"
    => /\ FramedRight(codec)
       /\ ~codec.null
       /\ codec.size = codec.len
       /\ LineOf(codec).text = Payload(codec.kind, codec.len)

\* the round trip of the payloads that are text
RoundTripOfText ==
    (codec.stage = "decoded" /\ codec.kind = "text")
    => /\ FramedRight(codec)
       /\ ~codec.null
       /\ codec.size = codec.len
       /\ LineOf(codec).text = Payload(codec.kind, codec.len)

\* the frame of every payload is right, text or not
FramesOfBytes == codec.stage = "decoded" => FramedRight(codec)

----------------------------------------------------------------------------
(* C18 *)

\* the bytes of every record of a bucket
DataOf(b) == [key \in DOMAIN b |-> b[key].data]

\* the id a ref denotes in a map of record bytes
IdIn(d, key) ==
    IF key \notin DOMAIN d \/ trim(d[key]) = << >> THEN zeroOid
    ELSE trim(d[key])

RECURSIVE Applied(_, _, _, _)
\* the record bytes after the first k commands of cs were carried out on
\* d, one after the other
Applied(d, r, cs, k) ==
    IF k = 0 THEN d
    ELSE LET prev == Applied(d, r, cs, k - 1)
             key == RefKeyOf(r, cs[k].ref)
         IN  IF cs[k].old # zeroOid /\ IdIn(prev, key) # cs[k].old
             THEN prev
             ELSE [x \in DOMAIN prev \cup {key} |->
                      IF x = key THEN cs[k].new \o <<LF>> ELSE prev[x]]

\* a bucket operation of the push of p failed
PushFailed(p) == pc[p] = "failed" /\ req[p].kind = "receive"

\* C18: when a bucket operation of a push fails, the push is not answered
\* 200, the writes of the commands it had carried out are in the bucket,
\* and nothing else was written: no later command, no pack.
C18_FailureKeepsWrites ==
    \A p \in Procs :
        PushFailed(p)
        => /\ resp[p].status # 200
           /\ Len(results[p]) - 1 <= Len(SentCommands(req[p].body))
           /\ DataOf(bucket)
                  = Applied(DataOf(before[p]), req[p],
                            SentCommands(req[p].body), Len(results[p]) - 1)

\* a push of two commands failed after it had written the ref of the
\* first one
C18_Witness ==
    \E p \in Procs :
        /\ PushFailed(p)
        /\ Len(SentCommands(req[p].body)) = 2
        /\ Len(results[p]) = 2
        /\ DataOf(bucket) # DataOf(before[p])

----------------------------------------------------------------------------
(* C19 *)

\* C19: the handler of info/refs finds that a repository exists exactly
\* when some object is stored under repos/<org>/<repo>/, whatever other
\* repositories hold; so info/refs for git-upload-pack on a repository
\* nothing was written to is answered 404, also when the name of the
\* repository is the beginning of the name of one that holds objects.
C19_ExistsIffOwnPrefix ==
    \A p \in Procs :
        Served(p, "info")
        => /\ exists[p] <=> ~EmptyRepo(before[p], req[p])
           /\ (EmptyRepo(before[p], req[p])
               /\ req[p].service = S_upload_pack)
              => resp[p].status = 404

----------------------------------------------------------------------------
(* C20 *)

\* p serves info/refs for a repository that held nothing when the request
\* was accepted, and meanwhile q has served a push of one command to that
\* repository and reported its ref ok
InitRacesPush(p, q) ==
    /\ p # q
    /\ req[p].kind = "info"
    /\ EmptyRepo(before[p], req[p])
    /\ Pushed(q)
    /\ req[q].org = req[p].org /\ req[q].repo = req[p].repo
    /\ Len(SentCommands(req[q].body)) = 1
    /\ Len(Reply(q)) >= 2
    /\ Reply(q)[2] = OkFrame(SentCommands(req[q].body)[1].ref)

\* C20: a ref that a push has written and reported ok changes only by a
\* later command of a push on that ref.  Here no such command can have
\* come: the only other request is an info/refs that was accepted before
\* the push wrote; so the ref still holds the id the push wrote, whatever
\* the info/refs request does, its initialisation of the repository
\* included.
C20_AdvertiseNeverResets ==
    \A p \in Procs : \A q \in Procs :
        InitRacesPush(p, q)
        => LET c == SentCommands(req[q].body)[1]
           IN  StoredId(bucket, RefKeyOf(req[q], c.ref)) = c.new

----------------------------------------------------------------------------
(* C21 *)

\* C21: when the push loop has read the end of the stream, the lines it
\* read are the payloads of the frames of the stream, in order, however
\* the stream was cut into reads.
C21_ChunkingIndependent ==
    reader.stage = "ended" => reader.lines = reader.frames

----------------------------------------------------------------------------
(* C22 *)

\* key is the HEAD record of one of the repositories
IsHeadKey(key) ==
    \E r \in Repos :
        key = S_repos \o <<"/">> \o Org \o <<"/">> \o r \o <<"/">> \o S_HEAD

\* C22: a HEAD record reads ref: refs/heads/<name> and is no object id,
\* whatever pushes were served; no command of a push writes HEAD.
C22_HeadIsSymbolic ==
    \A key \in DOMAIN bucket :
        IsHeadKey(key)
        => /\ startsWith(bucket[key].data, S_ref_colon \o S_refs_heads)
           /\ Len(trim(bucket[key].data)) > Len(S_ref_colon \o S_refs_heads)
           /\ ~IsOid(trim(bucket[key].data))

====
